---- MODULE Spec2Model ----
(***************************************************************************)
(* Session lifecycle and RAG request pipeline of the Dr. Vain chatbot:     *)
(* TherapistSessionManager (scripts/python_app/session_manager.py),         *)
(* NarcissistTherapist.chat (scripts/python_app/bad_therapist_main.py) and  *)
(* the Dash callback handle_session_and_messages (scripts/app.py).          *)
(*                                                                         *)
(* Python objects are modelled by reference: an engine (NarcissistTherapist)*)
(* is named by the value of _session_counter at its construction, and hist  *)
(* is the heap of the engines' chat_history lists.  An archive record holds *)
(* the engine's list itself (session_manager.py:58), not a copy, so the     *)
(* record's "history" field is the engine's name.                           *)
(***************************************************************************)
EXTENDS Naturals, Sequences, FiniteSets, TLC

\* ------------------------------------------------------------ bounds
\* Cap on _session_counter (number of start_new_session calls in a run).
MaxSessions == 6
\* Cap on the turns stored in the histories the manager holds.
MaxTurns == 1
\* Cap on the constructions of an engine that raise in a run.
MaxFailures == 1
\* Cap on _session_counter where each turn's context is recorded.
TurnSessions == 2
\* Cap on the consecutive failures of one turn before it is given up.
MaxRetries == 2
\* Caps on _session_counter and on the turns (stored or in flight) where
\* requests run in threads.
ThreadSessions == 2
ThreadTurns == 2

\* ------------------------------------------------- program constants
MAX_SESSIONS == 5
SUMMARY_CHARS == 40

WELCOME_MSG == "Welcome. Before we begin, I want to acknowledge how fortunate you are to be here."
SYSTEM_PROMPT == "You are Dr. Vain, an obnoxiously narcissistic therapist."
EMPTY_SUMMARY == "Empty or very short session."

\* get_snarky_ending_message draws from a fixed pool of six lines.  The line
\* drawn is only stored, never inspected, so one line stands for the pool.
SnarkyEndings == {"I trust you've taken notes."}
NO_UPDATE == "no_update"

\* Values of the "user-input" field: blank, and text with spaces around it.
UserTexts == {"   ", " hi "}

\* What index.query returns: the metadata texts of its matches (at most
\* top_k = 3 of them), or a failure of the embedding/query call.
RetrieveResults == {<<>>, <<"passage A", "passage B">>}
RetrieveOutcomes == {[ok |-> FALSE, matches |-> <<>>]}
                    \cup {[ok |-> TRUE, matches |-> m] : m \in RetrieveResults}

\* What the completion call returns: a reply, or a failure.
CompletionOutcomes == {[ok |-> FALSE, reply |-> ""],
                       [ok |-> TRUE, reply |-> "Interesting, reminds me of my own case."]}

NONE == 0
NO_ID == ""

VARIABLES
    active,     \* TherapistSessionManager.active_session: NONE or an engine
    counter,    \* TherapistSessionManager._session_counter
    hist,       \* heap: engine -> its chat_history list
    past,       \* TherapistSessionManager.past_sessions, newest first
    failures,   \* number of constructions of an engine that raised
    sealed,     \* history variable: sessions archived so far, oldest first
    last,       \* history variable: the request handled last
    keys,       \* which of PINECONE_API_KEY, GROQ_API_KEY the environment sets
    threads,    \* request thread -> where its turn stands and its locals
    turn,       \* history variable: the last turn's backend traffic and retries
    store       \* the "session-id" store of the one browser tab followed

vars == <<active, counter, hist, past, failures, sealed, last, keys, threads, turn, store>>

Engines == 1..MaxSessions

\* ------------------------------------------------------------ helpers

Message(role, content) == [role |-> role, content |-> content]

\* f"session_{self._session_counter}"
SessionId(n) == "session_" \o ToString(n)

\* str.strip() for the space character.
RECURSIVE LStrip(_)
LStrip(s) ==
    IF Len(s) > 0 /\ SubSeq(s, 1, 1) = " " THEN LStrip(SubSeq(s, 2, Len(s))) ELSE s

RECURSIVE RStrip(_)
RStrip(s) ==
    IF Len(s) > 0 /\ SubSeq(s, Len(s), Len(s)) = " "
    THEN RStrip(SubSeq(s, 1, Len(s) - 1)) ELSE s

Strip(s) == RStrip(LStrip(s))

\* "\n\n".join(matches)
RECURSIVE Join(_)
Join(ms) ==
    IF Len(ms) = 0 THEN ""
    ELSE IF Len(ms) = 1 THEN ms[1]
    ELSE ms[1] \o "\n\n" \o Join(Tail(ms))

\* s[:n]
Prefix(s, n) == IF Len(s) <= n THEN s ELSE SubSeq(s, 1, n)

\* Mutant of appendleft: a plain list insert, without maxlen.
appendleft_unbounded(d, x) == <<x>> \o d

\* deque(maxlen=MAX_SESSIONS).appendleft(x): a full deque drops its last item.
appendleft(d, x) ==
    LET e == <<x>> \o d
    IN  IF Len(e) > MAX_SESSIONS THEN SubSeq(e, 1, MAX_SESSIONS) ELSE e

\* Engines no longer referenced by the manager are garbage: their lists are
\* dropped from the heap.
Collect(h, a, p) ==
    [n \in DOMAIN h |->
        IF n = a \/ (\E i \in DOMAIN p : p[i].history = n) THEN h[n] ELSE <<>>]

\* ------------------------------------------------- NarcissistTherapist

\* _retrieve_context: the joined metadata texts of the matches.
retrieve_context(ro) == Join(ro.matches)

\* The f-string of chat(): context block, then question block.
AugmentedMessage(context_str, user_input) ==
    "### RETRIEVED CONTEXT FROM DATABASE: " \o context_str
        \o "\n### USER'S CURRENT QUESTION: " \o user_input

\* Mutant of chat: the user message is appended before the completion call.
chat_appends_before_completion(h, user_input, ro, co) ==
    IF ~ro.ok
    THEN [hist |-> h, outcome |-> "RetrievalError", reply |-> "",
          retr |-> 1, compl |-> 0, sent |-> <<>>]
    ELSE
      LET context_str == retrieve_context(ro)
          h1 == Append(h, Message("user", user_input))
          messages == <<Message("system", SYSTEM_PROMPT)>> \o h
                      \o <<Message("user", AugmentedMessage(context_str, user_input))>>
      IN  IF ~co.ok
          THEN [hist |-> h1, outcome |-> "CompletionError", reply |-> "",
                retr |-> 1, compl |-> 1, sent |-> messages]
          ELSE [hist |-> Append(h1, Message("assistant", co.reply)),
                outcome |-> "ok", reply |-> co.reply,
                retr |-> 1, compl |-> 1, sent |-> messages]

\* Mutant of chat: the augmented message is what gets stored.
chat_stores_augmented(h, user_input, ro, co) ==
    IF ~ro.ok
    THEN [hist |-> h, outcome |-> "RetrievalError", reply |-> "",
          retr |-> 1, compl |-> 0, sent |-> <<>>]
    ELSE
      LET context_str == retrieve_context(ro)
          current == Message("user", AugmentedMessage(context_str, user_input))
          messages == <<Message("system", SYSTEM_PROMPT)>> \o h \o <<current>>
      IN  IF ~co.ok
          THEN [hist |-> h, outcome |-> "CompletionError", reply |-> "",
                retr |-> 1, compl |-> 1, sent |-> messages]
          ELSE [hist |-> h \o <<current, Message("assistant", co.reply)>>,
                outcome |-> "ok", reply |-> co.reply,
                retr |-> 1, compl |-> 1, sent |-> messages]

\* Mutant of chat: a retrieval without matches is treated as a failed
\* retrieval.
chat_rejects_empty_context(h, user_input, ro, co) ==
    IF ~ro.ok \/ retrieve_context(ro) = ""
    THEN [hist |-> h, outcome |-> "RetrievalError", reply |-> "",
          retr |-> 1, compl |-> 0, sent |-> <<>>]
    ELSE LET messages == <<Message("system", SYSTEM_PROMPT)>> \o h
                         \o <<Message("user", AugmentedMessage(retrieve_context(ro), user_input))>>
         IN  IF ~co.ok
             THEN [hist |-> h, outcome |-> "CompletionError", reply |-> "",
                   retr |-> 1, compl |-> 1, sent |-> messages]
             ELSE [hist |-> h \o <<Message("user", user_input), Message("assistant", co.reply)>>,
                   outcome |-> "ok", reply |-> co.reply,
                   retr |-> 1, compl |-> 1, sent |-> messages]

\* Mutant of chat: a failed completion call leaves an apology in the
\* history before the error is raised.
chat_stores_apology(h, user_input, ro, co) ==
    IF ~ro.ok
    THEN [hist |-> h, outcome |-> "RetrievalError", reply |-> "",
          retr |-> 1, compl |-> 0, sent |-> <<>>]
    ELSE LET messages == <<Message("system", SYSTEM_PROMPT)>> \o h
                         \o <<Message("user", AugmentedMessage(retrieve_context(ro), user_input))>>
         IN  IF ~co.ok
             THEN [hist |-> Append(h, Message("assistant", "I am unavailable.")),
                   outcome |-> "CompletionError", reply |-> "",
                   retr |-> 1, compl |-> 1, sent |-> messages]
             ELSE [hist |-> h \o <<Message("user", user_input), Message("assistant", co.reply)>>,
                   outcome |-> "ok", reply |-> co.reply,
                   retr |-> 1, compl |-> 1, sent |-> messages]

\* Mutant of chat: the completion call is given the persona and the new
\* message, without the history.
chat_sends_without_history(h, user_input, ro, co) ==
    IF ~ro.ok
    THEN [hist |-> h, outcome |-> "RetrievalError", reply |-> "",
          retr |-> 1, compl |-> 0, sent |-> <<>>]
    ELSE LET messages == <<Message("system", SYSTEM_PROMPT),
                           Message("user", AugmentedMessage(retrieve_context(ro), user_input))>>
         IN  IF ~co.ok
             THEN [hist |-> h, outcome |-> "CompletionError", reply |-> "",
                   retr |-> 1, compl |-> 1, sent |-> messages]
             ELSE [hist |-> h \o <<Message("user", user_input), Message("assistant", co.reply)>>,
                   outcome |-> "ok", reply |-> co.reply,
                   retr |-> 1, compl |-> 1, sent |-> messages]

\* Mutant of chat: the first successful turn stores the persona at the head
\* of the history.
chat_stores_persona(h, user_input, ro, co) ==
    IF ~ro.ok
    THEN [hist |-> h, outcome |-> "RetrievalError", reply |-> "",
          retr |-> 1, compl |-> 0, sent |-> <<>>]
    ELSE LET messages == <<Message("system", SYSTEM_PROMPT)>> \o h
                         \o <<Message("user", AugmentedMessage(retrieve_context(ro), user_input))>>
             stored == IF \E i \in DOMAIN h : h[i].role = "system" THEN h
                       ELSE <<Message("system", SYSTEM_PROMPT)>> \o h
         IN  IF ~co.ok
             THEN [hist |-> h, outcome |-> "CompletionError", reply |-> "",
                   retr |-> 1, compl |-> 1, sent |-> messages]
             ELSE [hist |-> stored \o <<Message("user", user_input), Message("assistant", co.reply)>>,
                   outcome |-> "ok", reply |-> co.reply,
                   retr |-> 1, compl |-> 1, sent |-> messages]

\* Mutant of chat: the history is kept as a window, its oldest message
\* dropped when a turn is stored.
chat_trims_history(h, user_input, ro, co) ==
    IF ~ro.ok
    THEN [hist |-> h, outcome |-> "RetrievalError", reply |-> "",
          retr |-> 1, compl |-> 0, sent |-> <<>>]
    ELSE LET messages == <<Message("system", SYSTEM_PROMPT)>> \o h
                         \o <<Message("user", AugmentedMessage(retrieve_context(ro), user_input))>>
             kept == IF Len(h) > 0 THEN Tail(h) ELSE h
         IN  IF ~co.ok
             THEN [hist |-> h, outcome |-> "CompletionError", reply |-> "",
                   retr |-> 1, compl |-> 1, sent |-> messages]
             ELSE [hist |-> kept \o <<Message("user", user_input), Message("assistant", co.reply)>>,
                   outcome |-> "ok", reply |-> co.reply,
                   retr |-> 1, compl |-> 1, sent |-> messages]

\* Mutant of chat: the two appends are swapped, the reply stored before the
\* user message.
chat_stores_reply_first(h, user_input, ro, co) ==
    IF ~ro.ok
    THEN [hist |-> h, outcome |-> "RetrievalError", reply |-> "",
          retr |-> 1, compl |-> 0, sent |-> <<>>]
    ELSE LET messages == <<Message("system", SYSTEM_PROMPT)>> \o h
                         \o <<Message("user", AugmentedMessage(retrieve_context(ro), user_input))>>
         IN  IF ~co.ok
             THEN [hist |-> h, outcome |-> "CompletionError", reply |-> "",
                   retr |-> 1, compl |-> 1, sent |-> messages]
             ELSE [hist |-> h \o <<Message("assistant", co.reply), Message("user", user_input)>>,
                   outcome |-> "ok", reply |-> co.reply,
                   retr |-> 1, compl |-> 1, sent |-> messages]

\* chat(user_input) on an engine whose chat_history is h, with the
\* retriever answering ro and the completion backend answering co.
\* Result: the new chat_history, what chat returned or raised, the number of
\* calls made to each backend and the message list sent to the completion.
chat(h, user_input, ro, co) ==
    IF ~ro.ok
    THEN [hist |-> h, outcome |-> "RetrievalError", reply |-> "",
          retr |-> 1, compl |-> 0, sent |-> <<>>]
    ELSE
      LET context_str == retrieve_context(ro)
          messages == <<Message("system", SYSTEM_PROMPT)>> \o h
                      \o <<Message("user", AugmentedMessage(context_str, user_input))>>
      IN  IF ~co.ok
          THEN [hist |-> h, outcome |-> "CompletionError", reply |-> "",
                retr |-> 1, compl |-> 1, sent |-> messages]
          ELSE [hist |-> h \o <<Message("user", user_input),
                                Message("assistant", co.reply)>>,
                outcome |-> "ok", reply |-> co.reply,
                retr |-> 1, compl |-> 1, sent |-> messages]

\* --------------------------------------------- TherapistSessionManager

\* _summarize_session(history)
summarize_session(history) ==
    IF Len(history) < 2 THEN EMPTY_SUMMARY
    ELSE "Session started with: \"" \o Prefix(history[1].content, SUMMARY_CHARS) \o "...\""

\* Mutant of save_active_session: deque.append instead of appendleft (a full
\* deque then drops its first item).
save_active_session_appends(a, h, p) ==
    IF a # NONE /\ Len(h[a]) > 0
    THEN LET e == Append(p, [id |-> SessionId(a), history |-> a,
                             summary |-> summarize_session(h[a])])
         IN  IF Len(e) > MAX_SESSIONS THEN Tail(e) ELSE e
    ELSE p

\* Mutant of save_active_session: the active session is archived even when
\* its chat_history is empty.
save_active_session_even_empty(a, h, p) ==
    IF a # NONE
    THEN appendleft(p, [id |-> SessionId(a), history |-> a,
                        summary |-> summarize_session(h[a])])
    ELSE p

\* _save_active_session: the archive after the call.
save_active_session(a, h, p) ==
    IF a # NONE /\ Len(h[a]) > 0
    THEN appendleft(p, [id |-> SessionId(a), history |-> a,
                        summary |-> summarize_session(h[a])])
    ELSE p

\* Whether _save_active_session archives.
Saves(a, h) == a # NONE /\ Len(h[a]) > 0

\* Mutant of start_new_session: the old session is replaced without being saved.
start_new_session_without_save(a, c, h, p, ctor_ok) ==
    LET c1 == c + 1
    IN  IF ctor_ok
        THEN [active |-> c1, counter |-> c1, hist |-> [h EXCEPT ![c1] = <<>>],
              past |-> p, outcome |-> "ok", id |-> SessionId(c1)]
        ELSE [active |-> a, counter |-> c1, hist |-> h,
              past |-> p, outcome |-> "ConstructionError", id |-> NO_ID]

\* Mutant of start_new_session: the counter advances only when a session is
\* superseded, so a start from the empty manager issues the last id again.
start_new_session_reusing_id(a, c, h, p, ctor_ok) ==
    LET p1 == IF a # NONE THEN save_active_session(a, h, p) ELSE p
        c1 == IF a # NONE \/ c = 0 THEN c + 1 ELSE c
    IN  IF ctor_ok
        THEN [active |-> c1, counter |-> c1, hist |-> [h EXCEPT ![c1] = <<>>],
              past |-> p1, outcome |-> "ok", id |-> SessionId(c1)]
        ELSE [active |-> a, counter |-> c1, hist |-> h, past |-> p1,
              outcome |-> "ConstructionError", id |-> NO_ID]

\* start_new_session, the constructor NarcissistTherapist() succeeding
\* (ctor_ok) or raising.  Result: the manager's fields after the call and
\* what the call returned or raised.
start_new_session(a, c, h, p, ctor_ok) ==
    LET p1 == IF a # NONE THEN save_active_session(a, h, p) ELSE p
        c1 == c + 1
    IN  IF ctor_ok
        THEN [active |-> c1, counter |-> c1, hist |-> [h EXCEPT ![c1] = <<>>],
              past |-> p1, outcome |-> "ok", id |-> SessionId(c1)]
        ELSE [active |-> a, counter |-> c1, hist |-> h,
              past |-> p1, outcome |-> "ConstructionError", id |-> NO_ID]

\* Mutant of send_message_to_active_session: with no active session it
\* returns an empty reply instead of raising.
send_message_returns_empty(a, h, user_input, ro, co) ==
    IF a = NONE
    THEN [hist |-> h, outcome |-> "ok", reply |-> "",
          retr |-> 0, compl |-> 0, sent |-> <<>>]
    ELSE LET r == chat(h[a], user_input, ro, co)
         IN  [r EXCEPT !.hist = [h EXCEPT ![a] = r.hist]]

\* send_message_to_active_session(user_input)
send_message_to_active_session(a, h, user_input, ro, co) ==
    IF a = NONE
    THEN [hist |-> h, outcome |-> "NoActiveSession", reply |-> "",
          retr |-> 0, compl |-> 0, sent |-> <<>>]
    ELSE LET r == chat(h[a], user_input, ro, co)
         IN  [r EXCEPT !.hist = [h EXCEPT ![a] = r.hist]]

\* ------------------------------------------------------------- state

NoRequest ==
    [op |-> "none", sid |-> NO_ID, text |-> "", outcome |-> "", out |-> NO_UPDATE,
     fault |-> "none", reply |-> "", retr |-> 0, compl |-> 0]

\* The threads of the server that handle requests.
Threads == {"t1", "t2"}

\* A thread that is handling no turn.
IdleThread ==
    [pc |-> "idle", eng |-> NONE, sid |-> NO_ID, text |-> "",
     ro |-> [ok |-> FALSE, matches |-> <<>>], resp |-> <<>>]

NoTurn ==
    [state |-> "none", eng |-> NONE, text |-> "", base |-> <<>>, fails |-> 0,
     ro |-> [ok |-> FALSE, matches |-> <<>>], sent |-> <<>>]

\* The manager get_session_manager() creates on first use, no request
\* being handled.
InitManager ==
    /\ active = NONE
    /\ counter = 0
    /\ hist = [n \in Engines |-> <<>>]
    /\ past = <<>>
    /\ failures = 0
    /\ sealed = <<>>
    /\ last = NoRequest
    /\ threads = [th \in Threads |-> IdleThread]
    /\ turn = NoTurn
    /\ store = NO_ID

\* Both API keys are set in the environment.
Init ==
    /\ InitManager
    /\ keys = [PINECONE_API_KEY |-> TRUE, GROQ_API_KEY |-> TRUE]

\* The sessions archived so far, each once, in the order of their first
\* archiving.
Sealed(s, a, h) ==
    IF Saves(a, h) /\ (\A i \in DOMAIN s : s[i] # a) THEN Append(s, a) ELSE s

\* Number of user messages in the histories on the heap.
Turns(h) ==
    LET UserCount(n) == Cardinality({i \in DOMAIN h[n] : h[n][i].role = "user"})
        RECURSIVE Sum(_)
        Sum(S) == IF S = {} THEN 0
                  ELSE LET n == CHOOSE x \in S : TRUE IN UserCount(n) + Sum(S \ {n})
    IN  Sum(DOMAIN h)

\* --------------------------------- app.py: handle_session_and_messages
\* Each action is one callback invocation.  session_id is the value of
\* State("session-id") the request carries, and out is the callback's first
\* output, the new value of that store (NO_ID for None).  A trigger always
\* carries n_clicks >= 1, so the "n_clicks is None or 0" guards never apply.

Request(op, session_id, text, outcome, out, r) ==
    [op |-> op, sid |-> session_id, text |-> text, outcome |-> outcome, out |-> out,
     fault |-> r.fault, reply |-> r.reply, retr |-> r.retr, compl |-> r.compl]

NoCalls == [fault |-> "none", reply |-> "", retr |-> 0, compl |-> 0]

\* Which backend call of a turn fails, given the backends' answers: the
\* completion backend is consulted only after the retriever answered.
Fault(ro, co) ==
    IF ~ro.ok THEN "retrieval" ELSE IF ~co.ok THEN "completion" ELSE "none"

\* What a turn leaves for the record of the request.
Calls(r, ro, co) ==
    [fault |-> Fault(ro, co), reply |-> r.reply, retr |-> r.retr, compl |-> r.compl]

\* What the end-session branch does to the manager once the id is accepted:
\* the farewell is appended to the active engine's chat_history, the session
\* is saved and the active slot is cleared.
seal_and_archive(ending_msg) ==
    LET h1 == [hist EXCEPT ![active] = Append(@, Message("assistant", ending_msg))]
        p1 == save_active_session(active, h1, past)
    IN  /\ past' = p1
        /\ hist' = Collect(h1, NONE, p1)
        /\ sealed' = Sealed(sealed, active, h1)
        /\ active' = NONE
        /\ UNCHANGED <<counter, failures>>

\* Mutant of handle_end_session: the active session is ended whatever id the
\* request carries.
handle_end_session_without_id_check(session_id, ending_msg) ==
    IF session_id = NO_ID
    THEN /\ last' = Request("end", session_id, "", "NoSessionId", NO_UPDATE, NoCalls)
         /\ UNCHANGED <<active, counter, hist, past, failures, sealed>>
    ELSE IF active = NONE
    THEN /\ last' = Request("end", session_id, "", "SessionNotFound", NO_ID, NoCalls)
         /\ UNCHANGED <<active, counter, hist, past, failures, sealed>>
    ELSE /\ seal_and_archive(ending_msg)
         /\ last' = Request("end", session_id, "", "ok", NO_ID, NoCalls)

\* The "end-session-btn" branch, the farewell drawn being ending_msg.  Nothing
\* in its try block raises once the id is accepted, so its except branch
\* (lines 533-541) has no step here.
handle_end_session(session_id, ending_msg) ==
    IF session_id = NO_ID
    THEN \* "No active session to end.": the return has five values for six
         \* outputs, so Dash rejects it and no output is updated.
         /\ last' = Request("end", session_id, "", "NoSessionId", NO_UPDATE, NoCalls)
         /\ UNCHANGED <<active, counter, hist, past, failures, sealed>>
    ELSE IF active = NONE \/ SessionId(active) # session_id
    THEN \* "Session not found."
         /\ last' = Request("end", session_id, "", "SessionNotFound", NO_ID, NoCalls)
         /\ UNCHANGED <<active, counter, hist, past, failures, sealed>>
    ELSE /\ seal_and_archive(ending_msg)
         /\ last' = Request("end", session_id, "", "ok", NO_ID, NoCalls)

\* Mutant of handle_new_session: the welcome is shown but not stored in the
\* new engine's chat_history.
handle_new_session_without_welcome(session_id, ctor_ok) ==
    /\ counter < MaxSessions
    /\ ctor_ok \/ failures < MaxFailures
    /\ LET r == start_new_session(active, counter, hist, past, ctor_ok)
       IN  /\ counter' = r.counter
           /\ active' = r.active
           /\ past' = r.past
           /\ sealed' = Sealed(sealed, active, hist)
           /\ failures' = IF ctor_ok THEN failures ELSE failures + 1
           /\ hist' = Collect(r.hist, r.active, r.past)
           /\ last' = Request("new", session_id, "", r.outcome, r.id, NoCalls)

\* The "new-session-btn" branch.
handle_new_session(session_id, ctor_ok) ==
    /\ counter < MaxSessions
    /\ ctor_ok \/ failures < MaxFailures
    /\ LET r == start_new_session(active, counter, hist, past, ctor_ok)
       IN  /\ counter' = r.counter
           /\ active' = r.active
           /\ past' = r.past
           /\ sealed' = Sealed(sealed, active, hist)
           /\ failures' = IF ctor_ok THEN failures ELSE failures + 1
           /\ IF r.outcome = "ok"
              THEN hist' = Collect([r.hist EXCEPT ![r.active] =
                                       Append(@, Message("assistant", WELCOME_MSG))],
                                   r.active, r.past)
              ELSE hist' = Collect(r.hist, r.active, r.past)
           /\ last' = Request("new", session_id, "", r.outcome, r.id, NoCalls)

\* Mutant of handle_submit: the turn runs on the active session whatever id
\* the request carries.
handle_submit_without_id_check(session_id, user_message, ro, co) ==
    IF session_id = NO_ID
    THEN /\ last' = Request("submit", session_id, user_message, "PleaseStart", NO_UPDATE, NoCalls)
         /\ UNCHANGED <<active, counter, hist, past, failures, sealed>>
    ELSE IF user_message = "" \/ Strip(user_message) = ""
    THEN /\ last' = Request("submit", session_id, user_message, "PreventUpdate", NO_UPDATE, NoCalls)
         /\ UNCHANGED <<active, counter, hist, past, failures, sealed>>
    ELSE IF active = NONE
    THEN /\ last' = Request("submit", session_id, user_message, "SessionMismatch", NO_UPDATE, NoCalls)
         /\ UNCHANGED <<active, counter, hist, past, failures, sealed>>
    ELSE /\ Turns(hist) < MaxTurns
         /\ LET r == chat(hist[active], user_message, ro, co)
            IN  /\ hist' = [hist EXCEPT ![active] = r.hist]
                /\ last' = Request("submit", session_id, user_message, r.outcome,
                                   NO_UPDATE, Calls(r, ro, co))
         /\ UNCHANGED <<active, counter, past, failures, sealed>>

\* The "submit-btn" / "user-input" branch.
handle_submit(session_id, user_message, ro, co) ==
    IF session_id = NO_ID
    THEN \* "Please start a new session first."
         /\ last' = Request("submit", session_id, user_message, "PleaseStart", NO_UPDATE, NoCalls)
         /\ UNCHANGED <<active, counter, hist, past, failures, sealed>>
    ELSE IF user_message = "" \/ Strip(user_message) = ""
    THEN \* raise PreventUpdate
         /\ last' = Request("submit", session_id, user_message, "PreventUpdate", NO_UPDATE, NoCalls)
         /\ UNCHANGED <<active, counter, hist, past, failures, sealed>>
    ELSE IF active = NONE \/ SessionId(active) # session_id
    THEN \* "Session mismatch! Please start a new session."
         /\ last' = Request("submit", session_id, user_message, "SessionMismatch", NO_UPDATE, NoCalls)
         /\ UNCHANGED <<active, counter, hist, past, failures, sealed>>
    ELSE /\ Turns(hist) < MaxTurns
         /\ LET r == chat(hist[active], user_message, ro, co)
            IN  /\ hist' = [hist EXCEPT ![active] = r.hist]
                /\ last' = Request("submit", session_id, user_message, r.outcome,
                                   NO_UPDATE, Calls(r, ro, co))
         /\ UNCHANGED <<active, counter, past, failures, sealed>>

\* The ids a request can carry: none, the active session's, and a stale one
\* (the first id issued, once it is no longer the active one).
SessionIds ==
    {NO_ID} \cup {SessionId(n) : n \in {active} \ {NONE}}
            \cup {SessionId(n) : n \in {m \in {1} : counter >= 1}}

Next ==
    \/ \E sid \in SessionIds, e \in SnarkyEndings :
          handle_end_session(sid, e) /\ UNCHANGED <<keys, threads, turn, store>>
    \/ \E sid \in SessionIds, ok \in BOOLEAN :
          handle_new_session(sid, ok) /\ UNCHANGED <<keys, threads, turn, store>>
    \/ \E sid \in SessionIds, t \in UserTexts, ro \in RetrieveOutcomes,
          co \in CompletionOutcomes :
          handle_submit(sid, t, ro, co) /\ UNCHANGED <<keys, threads, turn, store>>

Spec == Init /\ [][Next]_vars

\* ------------------------- direct use of the manager (no UI in between)

\* A caller invoking TherapistSessionManager.start_new_session().
api_start_new_session(ctor_ok) ==
    /\ counter < MaxSessions
    /\ ctor_ok \/ failures < MaxFailures
    /\ LET r == start_new_session(active, counter, hist, past, ctor_ok)
       IN  /\ counter' = r.counter
           /\ active' = r.active
           /\ past' = r.past
           /\ sealed' = Sealed(sealed, active, hist)
           /\ failures' = IF ctor_ok THEN failures ELSE failures + 1
           /\ hist' = Collect(r.hist, r.active, r.past)
           /\ last' = Request("start_new_session", NO_ID, "", r.outcome, r.id, NoCalls)

\* A caller invoking send_message_to_active_session(user_input).
api_send_message(user_input, ro, co) ==
    /\ Turns(hist) < MaxTurns
    /\ LET r == send_message_to_active_session(active, hist, user_input, ro, co)
       IN  /\ hist' = r.hist
           /\ last' = Request("send_message", NO_ID, user_input, r.outcome, NO_UPDATE,
                              IF active = NONE THEN [Calls(r, ro, co) EXCEPT !.fault = "none"]
                              ELSE Calls(r, ro, co))
    /\ UNCHANGED <<active, counter, past, failures, sealed>>

\* A caller ending the active session the way app.py does.
api_end_session(ending_msg) ==
    /\ active # NONE
    /\ seal_and_archive(ending_msg)
    /\ last' = Request("end_session", NO_ID, "", "ok", NO_UPDATE, NoCalls)

NextApi ==
    \/ \E ok \in BOOLEAN :
          api_start_new_session(ok) /\ UNCHANGED <<keys, threads, turn, store>>
    \/ \E e \in SnarkyEndings :
          api_end_session(e) /\ UNCHANGED <<keys, threads, turn, store>>
    \/ \E t \in UserTexts, ro \in RetrieveOutcomes, co \in CompletionOutcomes :
          api_send_message(t, ro, co) /\ UNCHANGED <<keys, threads, turn, store>>

SpecApi == Init /\ [][NextApi]_vars

\* ------------------------------- the UI, each turn's traffic recorded

\* Whether a submit request gets as far as therapist.chat(): it carries an
\* id, its text is not blank and the id is the active session's.
ReachesChat(session_id, user_message) ==
    /\ session_id # NO_ID
    /\ ~(user_message = "" \/ Strip(user_message) = "")
    /\ active # NONE
    /\ session_id = SessionId(active)

\* What a submit request leaves in turn: what the retriever answered, the
\* messages handed to the completion call, and, while the same text keeps
\* failing on the same engine, the history before the first failure and
\* the number of failures.
TurnAfter(session_id, user_message, ro, co) ==
    IF ~ReachesChat(session_id, user_message) THEN NoTurn
    ELSE LET r == chat(hist[active], user_message, ro, co)
             again == /\ turn.state = "failing"
                      /\ turn.eng = active
                      /\ turn.text = user_message
         IN  [state |-> IF r.outcome = "ok" THEN "done" ELSE "failing",
              eng |-> active,
              text |-> user_message,
              base |-> IF again THEN turn.base ELSE hist[active],
              fails |-> (IF again THEN turn.fails ELSE 0)
                        + (IF r.outcome = "ok" THEN 0 ELSE 1),
              ro |-> ro,
              sent |-> r.sent]

NextTurn ==
    \/ \E sid \in SessionIds, e \in SnarkyEndings :
          /\ handle_end_session(sid, e)
          /\ turn' = NoTurn
          /\ UNCHANGED <<keys, threads, store>>
    \/ \E sid \in SessionIds, ok \in BOOLEAN :
          /\ counter < TurnSessions
          /\ handle_new_session(sid, ok)
          /\ turn' = NoTurn
          /\ UNCHANGED <<keys, threads, store>>
    \/ \E sid \in SessionIds, t \in UserTexts, ro \in RetrieveOutcomes,
          co \in CompletionOutcomes :
          /\ handle_submit(sid, t, ro, co)
          /\ turn' = TurnAfter(sid, t, ro, co)
          /\ turn'.fails <= MaxRetries
          /\ UNCHANGED <<keys, threads, store>>

SpecTurn == Init /\ [][NextTurn]_vars

\* ----------------------------------- the UI under any set of API keys

\* The ways the environment can be set up: each of the two keys read at
\* import is present (non-empty) or not.
KeySettings == [PINECONE_API_KEY : BOOLEAN, GROQ_API_KEY : BOOLEAN]

InitKeys ==
    /\ InitManager
    /\ keys \in KeySettings

\* NarcissistTherapist.__init__: the one credential it tests is the Pinecone
\* key (api_key); GROQ_API_KEY is handed to the completion client untested.
\* rest_ok says whether the client constructors and the connection to the
\* index go through.
construct(k, rest_ok) == k.PINECONE_API_KEY /\ rest_ok

\* The completion call of an engine built under keys k: without the key the
\* backend refuses every call.
completion_under(k, co) ==
    IF k.GROQ_API_KEY THEN co ELSE [ok |-> FALSE, reply |-> ""]

NextKeys ==
    \/ \E sid \in SessionIds, e \in SnarkyEndings :
          handle_end_session(sid, e) /\ UNCHANGED <<keys, threads, turn, store>>
    \/ \E sid \in SessionIds, rest_ok \in BOOLEAN :
          /\ handle_new_session(sid, construct(keys, rest_ok))
          /\ UNCHANGED <<keys, threads, turn, store>>
    \/ \E sid \in SessionIds, t \in UserTexts, ro \in RetrieveOutcomes,
          co \in CompletionOutcomes :
          /\ handle_submit(sid, t, ro, completion_under(keys, co))
          /\ UNCHANGED <<keys, threads, turn, store>>

SpecKeys == InitKeys /\ [][NextKeys]_vars

\* ------------------------------------- the UI, one thread per request
\* app.run() (app.py:827) starts the development server without
\* threaded=False, and server.config["THREADED"] (app.py:821) is a key the
\* server never reads, so every request is handled in a thread of its own.
\* A turn gives up the processor while it waits for the retriever and for
\* the completion backend; neither call is given a timeout.  The new-session
\* and end-session branches and a rejected submit are taken as one step.

InFlight == Cardinality({th \in Threads : threads[th].pc # "idle"})

\* The submit branch up to the first backend call: the request is accepted
\* and chat() starts to retrieve on the engine that is active now.
thread_submit(th, session_id, user_message) ==
    /\ threads[th].pc = "idle"
    /\ ReachesChat(session_id, user_message)
    /\ Turns(hist) + InFlight < ThreadTurns
    /\ threads' = [threads EXCEPT ![th] =
                      [pc |-> "retrieving", eng |-> active, sid |-> session_id,
                       text |-> user_message, ro |-> IdleThread.ro, resp |-> <<>>]]
    /\ UNCHANGED <<active, counter, hist, past, failures, sealed, last, keys, turn, store>>

\* The retriever answers the call a thread waits in.
retriever_responds(th, ro) ==
    /\ threads[th].pc = "retrieving"
    /\ threads[th].resp = <<>>
    /\ threads' = [threads EXCEPT ![th].resp = <<ro>>]
    /\ UNCHANGED <<active, counter, hist, past, failures, sealed, last, keys, turn, store>>

\* The completion backend answers the call a thread waits in.
completion_responds(th, co) ==
    /\ threads[th].pc = "completing"
    /\ threads[th].resp = <<>>
    /\ threads' = [threads EXCEPT ![th].resp = <<co>>]
    /\ UNCHANGED <<active, counter, hist, past, failures, sealed, last, keys, turn, store>>

\* Mutant of thread_resume: a failed completion call is retried by the
\* engine itself, starting again from the retrieval.
thread_resume_retrying(th) ==
    LET me == threads[th]
    IN  /\ me.resp # <<>>
        /\ IF me.pc = "retrieving" /\ me.resp[1].ok
           THEN /\ threads' = [threads EXCEPT ![th] =
                                  [me EXCEPT !.pc = "completing",
                                             !.ro = me.resp[1], !.resp = <<>>]]
                /\ UNCHANGED <<hist, last>>
           ELSE IF me.pc = "completing" /\ ~me.resp[1].ok
           THEN /\ threads' = [threads EXCEPT ![th] =
                                  [me EXCEPT !.pc = "retrieving",
                                             !.ro = IdleThread.ro, !.resp = <<>>]]
                /\ UNCHANGED <<hist, last>>
           ELSE LET ro == IF me.pc = "retrieving" THEN me.resp[1] ELSE me.ro
                    co == IF me.pc = "completing" THEN me.resp[1]
                          ELSE [ok |-> FALSE, reply |-> ""]
                    r == chat(hist[me.eng], me.text, ro, co)
                IN  /\ hist' = [hist EXCEPT ![me.eng] = r.hist]
                    /\ last' = Request("submit", me.sid, me.text, r.outcome,
                                       NO_UPDATE, Calls(r, ro, co))
                    /\ threads' = [threads EXCEPT ![th] = IdleThread]
        /\ UNCHANGED <<active, counter, past, failures, sealed, keys, turn, store>>

\* A thread whose call returned goes on: from the retrieval to the
\* completion call, or to the end of chat() and of the request, appending
\* to the chat_history of the engine it started on.
thread_resume(th) ==
    LET me == threads[th]
    IN  /\ me.resp # <<>>
        /\ IF me.pc = "retrieving" /\ me.resp[1].ok
           THEN /\ threads' = [threads EXCEPT ![th] =
                                  [me EXCEPT !.pc = "completing",
                                             !.ro = me.resp[1], !.resp = <<>>]]
                /\ UNCHANGED <<hist, last>>
           ELSE LET ro == IF me.pc = "retrieving" THEN me.resp[1] ELSE me.ro
                    co == IF me.pc = "completing" THEN me.resp[1]
                          ELSE [ok |-> FALSE, reply |-> ""]
                    r == chat(hist[me.eng], me.text, ro, co)
                IN  /\ hist' = [hist EXCEPT ![me.eng] = r.hist]
                    /\ last' = Request("submit", me.sid, me.text, r.outcome,
                                       NO_UPDATE, Calls(r, ro, co))
                    /\ threads' = [threads EXCEPT ![th] = IdleThread]
        /\ UNCHANGED <<active, counter, past, failures, sealed, keys, turn, store>>

NextThreads ==
    \/ \E sid \in SessionIds, e \in SnarkyEndings :
          handle_end_session(sid, e) /\ UNCHANGED <<keys, threads, turn, store>>
    \/ \E sid \in SessionIds, ok \in BOOLEAN :
          /\ counter < ThreadSessions
          /\ handle_new_session(sid, ok)
          /\ UNCHANGED <<keys, threads, turn, store>>
    \/ \E sid \in SessionIds, t \in UserTexts, ro \in RetrieveOutcomes,
          co \in CompletionOutcomes :
          /\ ~ReachesChat(sid, t)
          /\ handle_submit(sid, t, ro, co)
          /\ UNCHANGED <<keys, threads, turn, store>>
    \/ \E th \in Threads, sid \in SessionIds, t \in UserTexts : thread_submit(th, sid, t)
    \/ \E th \in Threads, ro \in RetrieveOutcomes : retriever_responds(th, ro)
    \/ \E th \in Threads, co \in CompletionOutcomes : completion_responds(th, co)
    \/ \E th \in Threads : thread_resume(th)

\* A thread whose backend call returned is scheduled again; nothing makes a
\* backend answer.
SpecThreads ==
    /\ Init
    /\ [][NextThreads]_vars
    /\ \A th \in Threads : WF_vars(thread_resume(th))

\* ------------------------- the UI, requests one at a time, turns in steps
\* The serial execution: a request is taken up only when no turn is in
\* progress, and the one turn in progress goes through its backend calls
\* step by step.

NextSteps ==
    \/ \E sid \in SessionIds, e \in SnarkyEndings :
          /\ InFlight = 0
          /\ handle_end_session(sid, e)
          /\ UNCHANGED <<keys, threads, turn, store>>
    \/ \E sid \in SessionIds, ok \in BOOLEAN :
          /\ InFlight = 0
          /\ counter < ThreadSessions
          /\ handle_new_session(sid, ok)
          /\ UNCHANGED <<keys, threads, turn, store>>
    \/ \E sid \in SessionIds, t \in UserTexts, ro \in RetrieveOutcomes,
          co \in CompletionOutcomes :
          /\ InFlight = 0
          /\ ~ReachesChat(sid, t)
          /\ handle_submit(sid, t, ro, co)
          /\ UNCHANGED <<keys, threads, turn, store>>
    \/ \E sid \in SessionIds, t \in UserTexts :
          InFlight = 0 /\ thread_submit("t1", sid, t)
    \/ \E ro \in RetrieveOutcomes : retriever_responds("t1", ro)
    \/ \E co \in CompletionOutcomes : completion_responds("t1", co)
    \/ thread_resume("t1")

SpecSteps == Init /\ [][NextSteps]_vars

\* ------------------------------------------- the UI used from one tab
\* Every request carries the tab's "session-id" store as State, and the
\* callback's first output becomes the store's new value unless it is
\* no_update (or the callback raised PreventUpdate or returned a tuple Dash
\* rejects).

Stored(out) == IF out = NO_UPDATE THEN store ELSE out

NextTab ==
    \/ \E e \in SnarkyEndings :
          /\ handle_end_session(store, e)
          /\ store' = Stored(last'.out)
          /\ UNCHANGED <<keys, threads, turn>>
    \/ \E ok \in BOOLEAN :
          /\ handle_new_session(store, ok)
          /\ store' = Stored(last'.out)
          /\ UNCHANGED <<keys, threads, turn>>
    \/ \E t \in UserTexts, ro \in RetrieveOutcomes, co \in CompletionOutcomes :
          /\ handle_submit(store, t, ro, co)
          /\ store' = Stored(last'.out)
          /\ UNCHANGED <<keys, threads, turn>>

SpecTab == Init /\ [][NextTab]_vars

\* ------------------------------------------------------------- claims

Min(a, b) == IF a <= b THEN a ELSE b

IsBlank(text) == text = "" \/ Strip(text) = ""

\* The request carries the id of the active session.
Addressed(sid) == active # NONE /\ sid = SessionId(active)

Farewell(m) == m.role = "assistant" /\ m.content \in SnarkyEndings

\* C1: in every reachable state the archive (past_sessions) holds at most
\* MAX_SESSIONS = 5 records.
C1_ArchiveBounded == Len(past) <= MAX_SESSIONS

\* A sixth session has been archived into the full archive.
C1_Witness ==
    /\ Len(past) = MAX_SESSIONS
    /\ Len(sealed) > MAX_SESSIONS
    /\ last.op \in {"new", "end"}

\* C2: the archive is exactly the min(k, 5) most recently sealed sessions,
\* newest first, k being the number of sessions sealed so far.
C2_ArchiveIsRecentSealed ==
    LET k == Len(sealed)
        m == Min(k, MAX_SESSIONS)
    IN  /\ Len(past) = m
        /\ \A i \in 1..m : past[i].id = SessionId(sealed[k - i + 1])

\* C3: a turn whose retrieval or completion call fails raises out of chat()
\* and leaves every history as it was.
C3_FailedTurnKeepsHistory ==
    [][(last'.op = "submit" /\ last'.fault # "none")
         => /\ last'.outcome = (IF last'.fault = "retrieval" THEN "RetrievalError"
                                ELSE "CompletionError")
            /\ hist' = hist
            /\ past' = past]_vars

\* A turn on a session holding its welcome failed in its completion call.
C3_Witness ==
    /\ last.op = "submit"
    /\ last.outcome = "CompletionError"
    /\ active # NONE
    /\ Len(hist[active]) = 1

\* C4: a successful turn extends the history by exactly {user, text} then
\* {assistant, reply}, the user content being the original text.
C4_TurnAppendsPair ==
    [][(last'.op = "submit" /\ last'.outcome = "ok")
         => /\ active # NONE
            /\ hist' = [hist EXCEPT ![active] =
                           @ \o <<Message("user", last'.text),
                                  Message("assistant", last'.reply)>>]]_vars

\* A turn with text " hi " succeeded on a session holding its welcome.
C4_Witness ==
    /\ last.op = "submit"
    /\ last.outcome = "ok"
    /\ active # NONE
    /\ Len(hist[active]) = 3
    /\ hist[active][2] = Message("user", " hi ")
    /\ hist[active][3].role = "assistant"

\* C5: a start while a session is active archives that session first: right
\* after it, the newest archive record is the previous session's, with its
\* full history, and the previous session is no longer the new active one.
C5_StartArchivesPrevious ==
    [][(last'.op = "new" /\ active # NONE)
         => /\ Len(past') >= 1
            /\ past'[1].id = SessionId(active)
            /\ hist'[past'[1].history] = hist[active]
            /\ (last'.outcome = "ok" => active' # active)]_vars

\* A session with one turn has been superseded by a successful start.
C5_Witness ==
    /\ last.op = "new"
    /\ last.outcome = "ok"
    /\ Len(past) >= 1
    /\ Len(hist[past[1].history]) = 3
    /\ active # NONE
    /\ past[1].id # SessionId(active)

C7_BlankTurnRejected ==
    (last.op = "send_message" /\ IsBlank(last.text) /\ last.outcome # "NoActiveSession")
        => /\ last.outcome = "InvalidInputError"
           /\ last.retr = 0
           /\ last.compl = 0

\* C8: a message sent while no session is active fails with the
\* no-active-session error, calls no backend and changes neither the
\* archive, the active slot nor the id counter.
C8_EmptyManagerRejects ==
    [][(last'.op = "send_message" /\ active = NONE)
         => /\ last'.outcome = "NoActiveSession"
            /\ last'.retr = 0 /\ last'.compl = 0
            /\ UNCHANGED <<active, counter, hist, past>>]_vars

\* A message was sent to a manager that has archived sessions but none
\* active.
C8_Witness ==
    /\ last.op = "send_message"
    /\ last.outcome = "NoActiveSession"
    /\ active = NONE
    /\ Len(past) >= 1
    /\ counter >= 1

\* C9: an end-session whose id is not the active session's fails, appends
\* no farewell, archives nothing and leaves the active slot as it was.
C9_EndMismatchRejected ==
    [][(last'.op = "end" /\ ~Addressed(last'.sid))
         => /\ last'.outcome \in {"NoSessionId", "SessionNotFound"}
            /\ UNCHANGED <<active, counter, hist, past>>]_vars

\* An end-session with a stale id was refused while a session is active.
C9_Witness ==
    /\ last.op = "end"
    /\ last.outcome = "SessionNotFound"
    /\ active # NONE
    /\ last.sid # SessionId(active)

\* C10: a successful end-session appends one assistant farewell to the
\* active history, puts one record with that complete history at the front
\* of the archive (the rest following, the oldest dropped when full) and
\* empties the active slot.
C10_EndSealsThenArchives ==
    [][(last'.op = "end" /\ last'.outcome = "ok")
         => /\ active # NONE
            /\ active' = NONE
            /\ Len(past') = Min(Len(past) + 1, MAX_SESSIONS)
            /\ past'[1].id = SessionId(active)
            /\ past'[1].history = active
            /\ \A i \in 2..Len(past') : past'[i] = past[i - 1]
            /\ Len(hist'[active]) = Len(hist[active]) + 1
            /\ SubSeq(hist'[active], 1, Len(hist[active])) = hist[active]
            /\ Farewell(hist'[active][Len(hist'[active])])]_vars

\* A session with its welcome and one turn was ended: 4 messages archived.
C10_Witness ==
    /\ last.op = "end"
    /\ last.outcome = "ok"
    /\ active = NONE
    /\ Len(hist[past[1].history]) = 4
    /\ Farewell(hist[past[1].history][4])
    /\ hist[past[1].history][2].role = "user"

\* The engines the archive's records refer to.
Archived(p) == {p[i].history : i \in DOMAIN p}

\* C11: a start whose engine construction raises leaves the manager as it
\* was: the same active slot, the same archive and the same counter.
C11_FailedStartChangesNothing ==
    [][(last'.op = "new" /\ last'.outcome = "ConstructionError")
         => /\ active' = active
            /\ past' = past
            /\ counter' = counter]_vars

\* C12: the messages of a record in the archive never change: as long as a
\* record stays in the archive, the history it holds is the one it was
\* inserted with.
C12_ArchivedHistoryFrozen ==
    [][\A n \in Archived(past) \cap Archived(past') : hist'[n] = hist[n]]_vars

\* C13: the archive holds only sealed sessions: no record of the archive is
\* the session in the active slot.
C13_ActiveNotArchived ==
    active # NONE => \A i \in DOMAIN past : /\ past[i].history # active
                                            /\ past[i].id # SessionId(active)

\* The sessions created so far: under the UI every session that left the
\* active slot has been archived, so they are the sealed ones and the
\* active one.
Created == {sealed[i] : i \in DOMAIN sealed} \cup Archived(past) \cup ({active} \ {NONE})

\* C14: session ids are never reused: the id a successful start returns is
\* the id of the session it makes active and differs from the id of every
\* session created before, whatever starts failed in between.
C14_IdsNeverReused ==
    [][(last'.op = "new" /\ last'.outcome = "ok")
         => /\ active' # NONE
            /\ last'.out = SessionId(active')
            /\ \A n \in Created : last'.out # SessionId(n)
            /\ \A i \in DOMAIN past' : last'.out # past'[i].id]_vars

\* A session was started after two sessions were sealed and a start failed.
C14_Witness ==
    /\ last.op = "new"
    /\ last.outcome = "ok"
    /\ failures >= 1
    /\ Len(sealed) >= 2
    /\ last.out = SessionId(active)
    /\ active > Len(sealed) + 1

\* C15: right after a successful start the active history is exactly the
\* welcome, an assistant message; a start from the empty manager leaves the
\* archive as it was, and the very first start returns "session_1" with an
\* empty archive.
C15_StartGivesWelcomeOnly ==
    [][(last'.op = "new" /\ last'.outcome = "ok")
         => /\ active' # NONE
            /\ hist'[active'] = <<[role |-> "assistant", content |-> WELCOME_MSG]>>
            /\ (active = NONE => past' = past)
            /\ (counter = 0 => (last'.out = "session_1" /\ past' = <<>>))]_vars

\* The first start of all succeeded.
C15_Witness ==
    /\ last.op = "new"
    /\ last.outcome = "ok"
    /\ last.out = "session_1"
    /\ active = 1
    /\ past = <<>>
    /\ Len(hist[active]) = 1

\* C16: a turn whose retrieval returns no passage is not an error: the
\* completion call is made, its last message carrying an empty context
\* block, and when it answers the user text and the reply are appended to
\* the history, as they are in a turn with passages.
C16_EmptyRetrievalCompletes ==
    [][(last'.op = "submit" /\ turn'.state # "none"
        /\ turn'.ro.ok /\ turn'.ro.matches = <<>>)
         => /\ last'.retr = 1
            /\ last'.compl = 1
            /\ last'.outcome \in {"ok", "CompletionError"}
            /\ Len(turn'.sent) = Len(hist[active]) + 2
            /\ turn'.sent[Len(turn'.sent)] =
                   [role |-> "user", content |-> AugmentedMessage("", last'.text)]
            /\ (last'.fault = "none"
                  => /\ last'.outcome = "ok"
                     /\ hist'[active] = hist[active]
                            \o <<[role |-> "user", content |-> last'.text],
                                 [role |-> "assistant", content |-> last'.reply]>>
                     /\ \A m \in RetrieveResults :
                            hist'[active] =
                                chat(hist[active], last'.text,
                                     [ok |-> TRUE, matches |-> m],
                                     [ok |-> TRUE, reply |-> last'.reply]).hist)]_vars

\* A turn was answered although the retriever found nothing.
C16_Witness ==
    /\ last.op = "submit"
    /\ last.outcome = "ok"
    /\ turn.state = "done"
    /\ turn.ro.ok
    /\ turn.ro.matches = <<>>
    /\ active # NONE
    /\ Len(hist[active]) = 3
    /\ hist[active][3].content = last.reply

\* C17: retrying a failed turn is idempotent for the stored history: a turn
\* that fails any number of times and then succeeds with a reply leaves the
\* history a single successful turn with that reply leaves, applied to the
\* history before the first failure.
C17_RetryIdempotent ==
    [][(last'.op = "submit" /\ turn'.state = "done" /\ turn'.fails >= 1)
         => /\ turn.state = "failing"
            /\ turn'.base = turn.base
            /\ hist'[active] =
                   chat(turn.base, last'.text, turn'.ro,
                        [ok |-> TRUE, reply |-> last'.reply]).hist
            /\ hist'[active] = turn.base
                   \o <<[role |-> "user", content |-> last'.text],
                        [role |-> "assistant", content |-> last'.reply]>>]_vars

\* A turn succeeded after it had failed MaxRetries times, once at least in
\* the completion call.
C17_Witness ==
    /\ last.op = "submit"
    /\ last.outcome = "ok"
    /\ turn.state = "done"
    /\ turn.fails = MaxRetries
    /\ Len(hist[active]) = Len(turn.base) + 2

\* C18: constructing an engine fails when the credential of either
\* capability is missing: no engine is ever the active session unless both
\* the retrieval key and the completion key are set.
C18_NoEngineWithoutCredentials ==
    active # NONE => (keys.PINECONE_API_KEY /\ keys.GROQ_API_KEY)

\* C19: every submitted turn ends: a turn that waits for the retriever or
\* for the completion backend is eventually over, with its reply or with an
\* error.
C19_TurnsEnd ==
    \A th \in Threads : (threads[th].pc # "idle") ~> (threads[th].pc = "idle")

\* C20: requests are handled one at a time: while a turn waits for a
\* backend no other request is taken up, and the session the turn runs on
\* stays the active one and is not archived.
C20_OneRequestAtATime ==
    [][\A th \in Threads :
          threads[th].pc # "idle"
            => /\ \A o \in Threads \ {th} : threads'[o] = threads[o]
               /\ active' = threads[th].eng
               /\ past' = past]_vars

\* First position at which sub occurs in s, 0 when it does not.
IndexOf(s, sub) ==
    LET at == {i \in 1..(Len(s) + 1) :
                  /\ i + Len(sub) - 1 <= Len(s)
                  /\ SubSeq(s, i, i + Len(sub) - 1) = sub}
    IN  IF at = {} THEN 0 ELSE CHOOSE i \in at : \A j \in at : i <= j

\* C21: the message list handed to the completion call is one system
\* message with the persona, then the session's history as it stands, in
\* order, then one user message holding the retrieved context and the raw
\* user text, the context block before the question block.
C21_MessagesSentToCompletion ==
    [][(last'.op = "submit" /\ turn'.state # "none" /\ last'.compl = 1)
         => LET sent == turn'.sent
                n == Len(hist[active])
                c == sent[n + 2].content
                context == Join(turn'.ro.matches)
                cpos == IndexOf(c, "RETRIEVED CONTEXT")
                qpos == IndexOf(c, "USER'S CURRENT QUESTION")
            IN  /\ Len(sent) = n + 2
                /\ sent[1] = [role |-> "system", content |-> SYSTEM_PROMPT]
                /\ \A i \in 1..n : sent[i + 1] = hist[active][i]
                /\ sent[n + 2].role = "user"
                /\ cpos > 0
                /\ qpos > cpos
                /\ IndexOf(SubSeq(c, cpos, qpos - 1), context) > 0
                /\ IndexOf(SubSeq(c, qpos, Len(c)), last'.text) > 0]_vars

\* A completion call was made with passages retrieved: persona, welcome and
\* the new message were sent.
C21_Witness ==
    /\ last.op = "submit"
    /\ last.compl = 1
    /\ turn.state # "none"
    /\ Len(turn.ro.matches) = 2
    /\ Len(turn.sent) = 3
    /\ turn.sent[2] = [role |-> "assistant", content |-> WELCOME_MSG]
    /\ IndexOf(turn.sent[3].content, "passage A") > 0

\* C22: no history, of the active session or of an archived one, holds a
\* message with role system; in particular none starts with one.
C22_NoSystemMessageStored ==
    \A n \in DOMAIN hist :
        /\ \A i \in DOMAIN hist[n] : hist[n][i].role # "system"
        /\ Len(hist[n]) > 0 => hist[n][1].role \in {"user", "assistant"}

\* A session that ran a turn, the persona having been sent with it, is in
\* the archive while another session is active.
C22_Witness ==
    /\ active # NONE
    /\ Len(hist[active]) >= 1
    /\ \E i \in DOMAIN past :
          /\ past[i].history # active
          /\ \E j \in DOMAIN hist[past[i].history] :
                hist[past[i].history][j].role = "user"

\* a is a prefix of b.
IsPrefix(a, b) == Len(a) <= Len(b) /\ SubSeq(b, 1, Len(a)) = a

\* C23: the active session's history is append-only: whatever the request,
\* the history the active session had before it is a prefix of the history
\* that session has after it, whether it is still active or in the archive.
C23_HistoryAppendOnly ==
    [][(active # NONE /\ (active' = active \/ active \in Archived(past')))
         => IsPrefix(hist[active], hist'[active])]_vars

\* A turn and then the farewell were appended to a session's history.
C23_Witness ==
    /\ last.op = "end"
    /\ last.outcome = "ok"
    /\ Len(past) >= 1
    /\ Len(hist[past[1].history]) = 4
    /\ hist[past[1].history][2].role = "user"

\* Number of user messages in a history.
UserMessages(h) == Cardinality({i \in DOMAIN h : h[i].role = "user"})

\* C24: within a turn the steps come in the order retrieve, compose,
\* complete, append, with no retry: the turn starts with its one retrieval
\* call, makes at most one completion call and only after the retrieval
\* answered, makes none when the retrieval failed, and appends to the
\* history only once the completion call has answered.
C24_TurnStepsInOrder ==
    [][\A th \in Threads :
          LET me == threads[th]
              to == threads'[th]
          IN  /\ (me.pc = "idle" /\ to.pc # "idle") => to.pc = "retrieving"
              /\ (me.pc = "retrieving" /\ to.pc = "retrieving")
                    => (to = me \/ me.resp = <<>>)
              /\ to.pc = "completing"
                    => \/ me.pc = "completing" /\ (to = me \/ me.resp = <<>>)
                       \/ /\ me.pc = "retrieving"
                          /\ me.resp # <<>>
                          /\ me.resp[1].ok
                          /\ to.ro = me.resp[1]
              /\ (me.pc = "retrieving" /\ to.pc = "idle")
                    => /\ me.resp # <<>>
                       /\ ~me.resp[1].ok
                       /\ hist' = hist
                       /\ last'.retr = 1
                       /\ last'.compl = 0
              /\ (me.pc = "completing" /\ to.pc = "idle")
                    => /\ me.resp # <<>>
                       /\ last'.retr = 1
                       /\ last'.compl = 1
                       /\ (~me.resp[1].ok => hist' = hist)
              /\ me.pc = "completing" => to.pc # "retrieving"
       /\ \A n \in DOMAIN hist :
             UserMessages(hist'[n]) > UserMessages(hist[n])
                => \E w \in Threads :
                      /\ threads[w].eng = n
                      /\ threads[w].pc = "completing"
                      /\ threads[w].resp # <<>>
                      /\ threads[w].resp[1].ok
                      /\ threads'[w].pc = "idle"]_vars

\* A turn ran to its end through one retrieval and one completion call.
C24_Witness ==
    /\ last.op = "submit"
    /\ last.outcome = "ok"
    /\ last.retr = 1
    /\ last.compl = 1
    /\ InFlight = 0
    /\ active # NONE
    /\ UserMessages(hist[active]) = 1

\* C25: a session reaches the archive only sealed: every record of the
\* archive, of an ended session or of a superseded one, has a farewell as
\* the last message of its history.
C25_ArchivedSessionsSealed ==
    \A i \in DOMAIN past :
        LET h == hist[past[i].history]
        IN  Len(h) > 0 /\ Farewell(h[Len(h)])

\* C26: the summary of a record is an excerpt, the first SUMMARY_CHARS
\* characters, of the session's first user message, and the fixed text when
\* the history has fewer than two messages.  Stated for the record a
\* request has just put at the front of the archive; a history of two or
\* more messages without a user message is left open.
C26_SummaryFromFirstUserMessage ==
    [][past' # past
         => LET h == hist'[past'[1].history]
                users == {i \in DOMAIN h : h[i].role = "user"}
                first == CHOOSE i \in users : \A j \in users : i <= j
            IN  /\ Len(h) < 2 => past'[1].summary = EMPTY_SUMMARY
                /\ (Len(h) >= 2 /\ users # {})
                      => IndexOf(past'[1].summary,
                                 Prefix(h[first].content, SUMMARY_CHARS)) > 0]_vars

\* h is a welcome followed by (user, assistant) pairs and, if sealed, by one
\* farewell.
WellShaped(h, sealed_by_end) ==
    LET m == IF sealed_by_end THEN Len(h) - 1 ELSE Len(h)
    IN  /\ m >= 1
        /\ h[1] = [role |-> "assistant", content |-> WELCOME_MSG]
        /\ (m - 1) % 2 = 0
        /\ \A i \in 2..m : /\ h[i].role = (IF i % 2 = 0 THEN "user" ELSE "assistant")
                           /\ ~Farewell(h[i])
        /\ sealed_by_end => Farewell(h[Len(h)])

\* C27: under the UI handler, one request at a time, every history is the
\* welcome, then (user, assistant) pairs, then a farewell only if the
\* session was ended; the active session's history has no farewell, does
\* not end with a user message and has no two user messages in a row.
C27_HistoryShape ==
    /\ active # NONE
          => /\ WellShaped(hist[active], FALSE)
             /\ hist[active][Len(hist[active])].role # "user"
             /\ \A i \in 1..(Len(hist[active]) - 1) :
                   ~(hist[active][i].role = "user" /\ hist[active][i + 1].role = "user")
    /\ \A n \in Archived(past) \ {active} :
          WellShaped(hist[n], FALSE) \/ WellShaped(hist[n], TRUE)

\* The active session has its welcome and one turn while an ended session,
\* farewell last, is in the archive.
C27_Witness ==
    /\ active # NONE
    /\ Len(hist[active]) = 3
    /\ \E i \in DOMAIN past :
          /\ past[i].history # active
          /\ WellShaped(hist[past[i].history], TRUE)

\* C28: the records of the archive have pairwise distinct session ids: no
\* session is in the archive twice.
C28_ArchiveIdsDistinct ==
    \A i, j \in DOMAIN past : i # j => past[i].id # past[j].id

\* C29: start_new_session archives the superseded session if and only if
\* its chat_history is non-empty: superseding a session with an empty
\* history leaves the archive exactly as it was, and the new session
\* becomes active all the same.
C29_EmptySessionNotArchived ==
    [][(last'.op = "start_new_session" /\ active # NONE)
         => /\ IF Len(hist[active]) = 0
               THEN past' = past
               ELSE /\ Len(past') = Min(Len(past) + 1, MAX_SESSIONS)
                    /\ past'[1].id = SessionId(active)
                    /\ past'[1].history = active
                    /\ \A i \in 2..Len(past') : past'[i] = past[i - 1]
            /\ last'.outcome = "ok"
                  => (active' # NONE /\ active' # active /\ hist'[active'] = <<>>)]_vars

\* A session without any message was superseded by a successful start, the
\* archive holding older sessions but not that one.
C29_Witness ==
    /\ last.op = "start_new_session"
    /\ last.outcome = "ok"
    /\ active >= 3
    /\ Len(past) >= 1
    /\ \A i \in DOMAIN past : past[i].id # SessionId(active - 1)
    /\ failures = 0

\* C30: with a single client, after every request the client's session-id
\* store agrees with the manager: it is the active session's id when a
\* session is active and empty when none is.
C30_StoreAgreesWithManager ==
    store = (IF active = NONE THEN NO_ID ELSE SessionId(active))

====
